---- MODULE Spec2Model ----
(***************************************************************************)
(* A model of src/src/lib.rs: the StateSyncer store (a registry of          *)
(* type-erased Mutex cells behind one map Mutex, a serializer registry, an   *)
(* optional disk store, the event sink) and the Item handle that emits on    *)
(* drop.  Threads call the public API in any order; every lock acquisition   *)
(* is one atomic step.                                                       *)
(***************************************************************************)
EXTENDS Integers, Sequences, FiniteSets, TLC

\* ---------------------------------------------------------------- bounds
MaxVal == 1
MaxOps == 3

\* ------------------------------------------------------------- universes
Threads == {"t1", "t2"}
Keys == {"a", "b"}
Types == {"i32", "bool"}
Texts == {"1", "x"}

\* The values of a type T (i32 cut to 0..MaxVal; bool as 0 = false, 1 = true).
Range(ty) == IF ty = "bool" THEN 0..1 ELSE 0..MaxVal

\* T::default(): 0 for i32, false for bool.
DefaultOf(ty) == 0

VARIABLES
    cfgSync,        \* cfg.sync_to_disk
    data,           \* StateSyncer.data: key -> cell (Pin<Box<Mutex<T>>>)
    dataLock,       \* owner of the Mutex around the data map
    dataPoisoned,   \* poison flag of the Mutex around the data map
    serializers,    \* StateSyncer.serializers: key -> type of the closures
    disk,           \* disk_store: key -> JSON value
    events,         \* everything AppHandle::emit published, in order
    pc,             \* where each thread is
    arg,            \* the arguments of each thread's call in progress
    ret,            \* what the step just taken returned to its caller
    handles,        \* the Items each thread owns, counted by kind
    guard,          \* the MutexGuard a thread got from Item::lock
    nops,           \* calls made so far (bounded by MaxOps)
    proc            \* "running"; "aborted" (a panic while panicking, a trap);
                    \* "undefined" (the program went on after undefined
                    \* behaviour: nothing it does from there is defined)

vars == <<cfgSync, data, dataLock, dataPoisoned, serializers, disk, events,
          pc, arg, ret, handles, guard, nops, proc>>

\* ------------------------------------------------------------ data shapes
\* Records are written with their fields in one fixed order throughout.
NoCell == [ty |-> "none", present |-> FALSE, val |-> 0, lock |-> "free",
           poisoned |-> FALSE]

\* Box::pin(Mutex::new(value)): a fresh, unlocked, unpoisoned cell.
NewCell(ty, v) == [ty |-> ty, present |-> TRUE, val |-> v, lock |-> "free",
                   poisoned |-> FALSE]

NoJson == [present |-> FALSE, v |-> 0, kind |-> "none"]

\* serde_json::json!(value): an i32 becomes a JSON number, a bool a JSON bool.
ToJson(ty, v) == [present |-> TRUE,
                  v |-> v,
                  kind |-> IF ty = "bool" THEN "bool" ELSE "number"]

\* serde_json::from_value::<T>: succeeds only on the JSON kind of T.
FromValueOk(ty, j) ==
    /\ j.present
    /\ j.kind = (IF ty = "bool" THEN "bool" ELSE "number")
    /\ j.v \in Range(ty)

\* A decoder that falls back to T::default() on text it cannot decode.
FromStrLenient(ty, text) ==
    IF ty = "bool"
    THEN IF text \in {"true", "false"}
         THEN {b \in 0..1 : text = (IF b = 1 THEN "true" ELSE "false")}
         ELSE {0}
    ELSE IF \E n \in 0..MaxVal : text = ToString(n)
         THEN {n \in 0..MaxVal : text = ToString(n)}
         ELSE {0}

\* serde_json::from_str::<T>(text): the set of values the text decodes to
\* (empty on a decode error).
FromStr(ty, text) ==
    IF ty = "bool"
    THEN {b \in 0..1 : text = (IF b = 1 THEN "true" ELSE "false")}
    ELSE {n \in Range("i32") : text = ToString(n)}

\* An event named after the key alone.
EventNameBare(key) == key

\* format!("{}_update", key)
EventName(key) == key \o "_update"

Event(key, ty, v) == [ty |-> ty, val |-> v, name |-> EventName(key)]

HandleKinds == [ty : Types, key : Keys, bad : BOOLEAN]
NoGuard == [ty |-> "none", key |-> "none", bad |-> FALSE]
NoHandles == [h \in HandleKinds |-> 0]

\* other: the right-hand Item of a comparison.
NoArg == [ty |-> "none", val |-> 0, text |-> "", key |-> "none",
          op |-> "none", emit |-> FALSE, other |-> NoGuard]
Call(op, k, ty, v, e) == [ty |-> ty, val |-> v, text |-> "", key |-> k,
                          op |-> op, emit |-> e, other |-> NoGuard]

\* What a step hands back to the caller: the call (op, key), how it ended
\* (kind), and the value if it returns one.
Result(a, kind, ty, v) == [ty |-> ty, val |-> v, kind |-> kind,
                           key |-> a.key, op |-> a.op]
Ret(a, kind) == Result(a, kind, "none", 0)
NoRet == Ret(NoArg, "none")

HasHandles(t) == \E h \in HandleKinds : handles[t][h] > 0

\* A thread may start a call: it is running normal code and the budget of
\* calls is not used up.
Running == proc = "running"

CanCall(t) == Running /\ pc[t] = "idle" /\ nops < MaxOps

\* A lock that never blocks.
LockAlways(owner) == TRUE

\* Mutex::lock blocks while another guard is alive.
LockFree(owner) == owner = "free"

\* What an access through a miscast or dangling reference can do: trap, or go
\* on with whatever the memory holds.
UBOutcomes == {"abort", "garbage"}

\* The outcomes of the unchecked cast of the cell of key k to Mutex<ty>.
CastOutcomes(k, ty) == IF data[k].ty = ty THEN {"ok"} ELSE UBOutcomes

\* The state of the process after an access with outcome o.
ProcAfter(o) == IF o = "ok" THEN proc
                ELSE IF o = "abort" THEN "aborted" ELSE "undefined"

\* ----------------------------------------------------------------- Init
Init ==
    /\ cfgSync \in BOOLEAN
    /\ data = [k \in Keys |-> NoCell]
    /\ dataLock = "free"
    /\ dataPoisoned = FALSE
    /\ serializers = [k \in Keys |-> "none"]
    /\ disk = [k \in Keys |-> NoJson]
    /\ events = <<>>
    /\ pc = [t \in Threads |-> "idle"]
    /\ arg = [t \in Threads |-> NoArg]
    /\ ret = NoRet
    /\ handles = [t \in Threads |-> NoHandles]
    /\ guard = [t \in Threads |-> NoGuard]
    /\ nops = 0
    /\ proc = "running"

\* ------------------------------------------------------- how a step ends
\* Thread t enters a public function with arguments a and stands before its
\* first lock.
Enter(t, a, label) ==
    /\ CanCall(t)
    /\ nops' = nops + 1
    /\ arg' = [arg EXCEPT ![t] = a]
    /\ pc' = [pc EXCEPT ![t] = label]
    /\ ret' = NoRet
    /\ UNCHANGED <<cfgSync, data, dataLock, dataPoisoned, serializers, disk,
                   events, handles, guard, proc>>

\* The call of thread t returns to its caller, r being the result.
Return(t, r) ==
    /\ pc' = [pc EXCEPT ![t] = "idle"]
    /\ arg' = [arg EXCEPT ![t] = NoArg]
    /\ ret' = r

\* Thread t goes on to the next lock of its call.
Goto(t, label) ==
    /\ pc' = [pc EXCEPT ![t] = label]
    /\ ret' = NoRet
    /\ UNCHANGED arg

\* Thread t panics (an unwrap of None or of a poisoned lock).  holdsData: the
\* guard of the data map is alive in the panicking frame, so the map Mutex is
\* poisoned when the frame unwinds.  Unwinding then drops the caller's locals:
\* a live MutexGuard poisons its cell, and the Item it borrows from is dropped
\* next, whose lock().unwrap() panics while panicking, which aborts the
\* process; a guard on a freed cell is undefined behaviour.  Items without a
\* guard are dropped one by one (pc = "unwind").
Unwind(t, holdsData, hs) ==
    /\ dataLock' = IF holdsData THEN "free" ELSE dataLock
    /\ dataPoisoned' = (dataPoisoned \/ holdsData)
    /\ ret' = NoRet
    /\ arg' = [arg EXCEPT ![t] = NoArg]
    /\ guard' = [guard EXCEPT ![t] = NoGuard]
    /\ pc' = [pc EXCEPT ![t] = IF \E h \in HandleKinds : hs[t][h] > 0
                                THEN "unwind" ELSE "dead"]
    /\ IF guard[t] = NoGuard
       THEN /\ handles' = hs
            /\ UNCHANGED <<data, proc>>
       ELSE IF guard[t].bad
       THEN /\ proc' \in {ProcAfter(o) : o \in UBOutcomes}
            /\ handles' = hs
            /\ UNCHANGED data
       ELSE /\ data' = [data EXCEPT ![guard[t].key].lock = "free",
                                    ![guard[t].key].poisoned = TRUE]
            /\ handles' = [hs EXCEPT ![t][guard[t]] = @ - 1]
            /\ proc' = "aborted"

\* ------------------------------------------------------------------ set
\* self.persist(key, value) when cfg.sync_to_disk
Persisted(k, ty, v) ==
    IF cfgSync THEN [disk EXCEPT ![k] = ToJson(ty, v)] ELSE disk

\* A serializers block that inserts whether or not the key is present.
WithSerializerOverwrite(k, ty) == [serializers EXCEPT ![k] = ty]

\* A serializers block that removes the pair of a key that has one.
WithSerializerRemoved(k, ty) ==
    [serializers EXCEPT ![k] = IF @ = "none" THEN ty ELSE "none"]

\* A serializers block that registers nothing.
WithSerializerSkipped(k, ty) == serializers

\* The block of set under the serializers lock: insert unless present.
WithSerializer(k, ty) ==
    IF serializers[k] = "none" THEN [serializers EXCEPT ![k] = ty]
    ELSE serializers

\* map_guard.insert frees the old cell: every Item that points to it dangles
\* from now on.
Dangling(hs, k) ==
    [h \in HandleKinds |->
        IF h.key # k THEN hs[h]
        ELSE IF h.bad THEN hs[h] + hs[[h EXCEPT !.bad = FALSE]]
        ELSE 0]

\* ... and so does a guard on it.
DanglingGuard(g, k) == IF g.key = k THEN [g EXCEPT !.bad = TRUE] ELSE g

\* pub fn set
SetCall(t, k, ty, v) == Enter(t, Call("set", k, ty, v, FALSE), "set_ser")

\* set: the block under the serializers lock.
SetSerializers(t) ==
    /\ Running
    /\ pc[t] = "set_ser"
    /\ serializers' = WithSerializer(arg[t].key, arg[t].ty)
    /\ Goto(t, "set_data")
    /\ UNCHANGED <<cfgSync, data, dataLock, dataPoisoned, disk, events,
                   handles, guard, nops, proc>>

\* What the caller of set gets back: load returns the value, the rest nothing.
SetResult(a) ==
    IF a.op = "load" THEN Result(a, "value", a.ty, a.val)
    ELSE Ret(a, "inserted")

\* set: lock the data map, insert the new cell, persist.
SetData(t) ==
    /\ Running
    /\ pc[t] = "set_data"
    /\ LockFree(dataLock)
    /\ IF dataPoisoned
       THEN /\ Unwind(t, FALSE, handles)
            /\ UNCHANGED <<cfgSync, serializers, disk, events, nops>>
       ELSE /\ data' = [data EXCEPT ![arg[t].key] =
                                        NewCell(arg[t].ty, arg[t].val)]
            /\ disk' = Persisted(arg[t].key, arg[t].ty, arg[t].val)
            /\ handles' = [u \in Threads |-> Dangling(handles[u], arg[t].key)]
            /\ guard' = [u \in Threads |-> DanglingGuard(guard[u], arg[t].key)]
            /\ Return(t, SetResult(arg[t]))
            /\ UNCHANGED <<cfgSync, dataLock, dataPoisoned, serializers,
                           events, nops, proc>>

\* ----------------------------------------------------------------- load
\* pub fn load
LoadCall(t, k, ty) == Enter(t, Call("load", k, ty, 0, FALSE), "load_read")

\* A load that takes whatever the backend holds, without decoding it as T.
LoadedAnyKind(k, ty) ==
    IF cfgSync /\ disk[k].present THEN disk[k].v ELSE DefaultOf(ty)

\* The value load hands to set: the decoded disk value when persistence is on
\* and the backend holds a value of type T, T::default() otherwise.
Loaded(k, ty) ==
    IF cfgSync /\ FromValueOk(ty, disk[k]) THEN disk[k].v ELSE DefaultOf(ty)

\* load: read the backend (or take the default), then call set.
LoadRead(t) ==
    /\ Running
    /\ pc[t] = "load_read"
    /\ arg' = [arg EXCEPT ![t].val = Loaded(arg[t].key, arg[t].ty)]
    /\ pc' = [pc EXCEPT ![t] = "set_ser"]
    /\ ret' = NoRet
    /\ UNCHANGED <<cfgSync, data, dataLock, dataPoisoned, serializers, disk,
                   events, handles, guard, nops, proc>>

\* --------------------------------------------------------------- update
\* pub fn update
UpdateCall(t, k, ty, v, e) ==
    Enter(t, Call("update", k, ty, v, e), "update_check")

\* pub fn update_typed_string
UpdateTypedStringCall(t, k, ty, text, e) ==
    Enter(t, [Call("update_typed_string", k, ty, 0, e) EXCEPT !.text = text],
          "decode")

\* update_typed_string: decode, return on an error, else call update.
Decode(t) ==
    /\ Running
    /\ pc[t] = "decode"
    /\ IF FromStr(arg[t].ty, arg[t].text) = {}
       THEN Return(t, Ret(arg[t], "decode_error"))
       ELSE \E v \in FromStr(arg[t].ty, arg[t].text) :
            /\ arg' = [arg EXCEPT ![t] = Call("update", arg[t].key, arg[t].ty,
                                              v, arg[t].emit)]
            /\ pc' = [pc EXCEPT ![t] = "update_check"]
            /\ ret' = NoRet
    /\ UNCHANGED <<cfgSync, data, dataLock, dataPoisoned, serializers, disk,
                   events, handles, guard, nops, proc>>

\* The first block of update: key_exists, read under the data lock, which is
\* released again at the end of the block; a new key goes to set.
UpdateCheck(t) ==
    /\ Running
    /\ pc[t] = "update_check"
    /\ LockFree(dataLock)
    /\ IF dataPoisoned
       THEN /\ Unwind(t, FALSE, handles)
            /\ UNCHANGED <<cfgSync, serializers, disk, events, nops>>
       ELSE /\ Goto(t, IF data[arg[t].key].present THEN "update_lock"
                       ELSE "set_ser")
            /\ UNCHANGED <<cfgSync, data, dataLock, dataPoisoned, serializers,
                           disk, events, handles, guard, nops, proc>>

\* update on an existing key: lock the data map again (the guard lives to the
\* end of the function), unwrap the entry and cast it unchecked.
UpdateLock(t) ==
    /\ Running
    /\ pc[t] = "update_lock"
    /\ LockFree(dataLock)
    /\ IF dataPoisoned
       THEN /\ Unwind(t, FALSE, handles)
            /\ UNCHANGED <<cfgSync, serializers, disk, events, nops>>
       ELSE \E o \in CastOutcomes(arg[t].key, arg[t].ty) :
            /\ proc' = ProcAfter(o)
            /\ dataLock' = t
            /\ Goto(t, "update_cell")
            /\ UNCHANGED <<cfgSync, data, dataPoisoned, serializers, disk,
                           events, handles, guard, nops>>

\* An update that publishes whatever the emit flag says.
UpdateEventsAlways(a) ==
    Append(events, [ty |-> a.ty, val |-> a.val, name |-> a.key \o "_update"])

\* An update that publishes the value it finds, before it stores the new one.
UpdateEventsStale(a) ==
    IF a.emit THEN Append(events, Event(a.key, a.ty, data[a.key].val))
    ELSE events

\* The notifications update publishes: one if emit, none otherwise.
UpdateEvents(a) ==
    IF a.emit THEN Append(events, Event(a.key, a.ty, a.val)) ELSE events

\* update: lock the cell (with the data lock held), store, persist, emit; both
\* guards are dropped on return.
UpdateCell(t) ==
    /\ Running
    /\ pc[t] = "update_cell"
    /\ LockFree(data[arg[t].key].lock)
    /\ IF data[arg[t].key].poisoned
       THEN /\ Unwind(t, TRUE, handles)
            /\ UNCHANGED <<cfgSync, serializers, disk, events, nops>>
       ELSE /\ data' = [data EXCEPT ![arg[t].key].val = arg[t].val]
            /\ disk' = Persisted(arg[t].key, arg[t].ty, arg[t].val)
            /\ events' = UpdateEvents(arg[t])
            /\ dataLock' = "free"
            /\ Return(t, Ret(arg[t], "replaced"))
            /\ UNCHANGED <<cfgSync, dataPoisoned, serializers, handles, guard,
                           nops, proc>>

\* ------------------------------------------------------------------ get
\* The handle get returns.
Item(k, ty, bad) == [ty |-> ty, key |-> k, bad |-> bad]

\* pub fn get
GetCall(t, k, ty) == Enter(t, Call("get", k, ty, 0, FALSE), "get_lock")

\* get: lock the data map, unwrap the entry, cast it unchecked, and return an
\* Item over the cell.  The cell's own Mutex is not touched.
Get(t) ==
    /\ Running
    /\ pc[t] = "get_lock"
    /\ LockFree(dataLock)
    /\ IF dataPoisoned
       THEN /\ Unwind(t, FALSE, handles)
            /\ UNCHANGED <<cfgSync, serializers, disk, events, nops>>
       ELSE IF ~data[arg[t].key].present
       THEN /\ Unwind(t, TRUE, handles)
            /\ UNCHANGED <<cfgSync, serializers, disk, events, nops>>
       ELSE \E o \in CastOutcomes(arg[t].key, arg[t].ty) :
            /\ proc' = ProcAfter(o)
            /\ handles' = [handles EXCEPT
                    ![t][Item(arg[t].key, arg[t].ty, o # "ok")] = @ + 1]
            /\ Return(t, Result(arg[t], "handle", arg[t].ty, 0))
            /\ UNCHANGED <<cfgSync, data, dataLock, dataPoisoned, serializers,
                           disk, events, guard, nops>>

\* ------------------------------------------------ snapshot, save, emit
\* pub fn snapshot
SnapshotCall(t, k, ty) ==
    Enter(t, Call("snapshot", k, ty, 0, FALSE), "lookup")

\* pub fn emit
EmitCall(t, k, ty) == Enter(t, Call("emit", k, ty, 0, FALSE), "lookup")

\* pub fn save
SaveCall(t, k, ty) == Enter(t, Call("save", k, ty, 0, FALSE), "save_check")

\* save: nothing when persistence is off, else snapshot.
SaveCheck(t) ==
    /\ Running
    /\ pc[t] = "save_check"
    /\ IF ~cfgSync THEN Return(t, Ret(arg[t], "disabled"))
       ELSE Goto(t, "lookup")
    /\ UNCHANGED <<cfgSync, data, dataLock, dataPoisoned, serializers, disk,
                   events, handles, guard, nops, proc>>

\* The start of snapshot and emit: lock the data map (the guard lives to the
\* end of the function), unwrap the entry, cast it unchecked.
Lookup(t) ==
    /\ Running
    /\ pc[t] = "lookup"
    /\ LockFree(dataLock)
    /\ IF dataPoisoned
       THEN /\ Unwind(t, FALSE, handles)
            /\ UNCHANGED <<cfgSync, serializers, disk, events, nops>>
       ELSE IF ~data[arg[t].key].present
       THEN /\ Unwind(t, TRUE, handles)
            /\ UNCHANGED <<cfgSync, serializers, disk, events, nops>>
       ELSE \E o \in CastOutcomes(arg[t].key, arg[t].ty) :
            /\ proc' = ProcAfter(o)
            /\ dataLock' = t
            /\ Goto(t, IF arg[t].op = "emit" THEN "emit_cell"
                       ELSE "snapshot_cell")
            /\ UNCHANGED <<cfgSync, data, dataPoisoned, serializers, disk,
                           events, handles, guard, nops>>

\* A snapshot that returns a fresh default instead of the stored value.
ClonedDefault(k) == 0

\* guard.clone(): the value snapshot returns.
Cloned(k) == data[k].val

\* snapshot: lock the cell (with the data lock held), clone the value, and
\* drop both guards on return; save goes on to persist the clone.
SnapshotCell(t) ==
    /\ Running
    /\ pc[t] = "snapshot_cell"
    /\ LockFree(data[arg[t].key].lock)
    /\ IF data[arg[t].key].poisoned
       THEN /\ Unwind(t, TRUE, handles)
            /\ UNCHANGED <<cfgSync, serializers, disk, events, nops>>
       ELSE /\ dataLock' = "free"
            /\ IF arg[t].op = "save"
               THEN /\ pc' = [pc EXCEPT ![t] = "save_persist"]
                    /\ arg' = [arg EXCEPT ![t].val = Cloned(arg[t].key)]
                    /\ ret' = NoRet
               ELSE Return(t, Result(arg[t], "value", arg[t].ty,
                                     Cloned(arg[t].key)))
            /\ UNCHANGED <<cfgSync, data, dataPoisoned, serializers, disk,
                           events, handles, guard, nops, proc>>

\* save: self.persist(key, value) with the snapshot.
SavePersist(t) ==
    /\ Running
    /\ pc[t] = "save_persist"
    /\ disk' = [disk EXCEPT ![arg[t].key] = ToJson(arg[t].ty, arg[t].val)]
    /\ Return(t, Ret(arg[t], "saved"))
    /\ UNCHANGED <<cfgSync, data, dataLock, dataPoisoned, serializers, events,
                   handles, guard, nops, proc>>

\* emit: lock the cell (with the data lock held); false when it is poisoned,
\* else publish the value and return true.
EmitCell(t) ==
    /\ Running
    /\ pc[t] = "emit_cell"
    /\ LockFree(data[arg[t].key].lock)
    /\ dataLock' = "free"
    /\ IF data[arg[t].key].poisoned
       THEN /\ Return(t, Ret(arg[t], "false"))
            /\ UNCHANGED events
       ELSE /\ events' = Append(events, Event(arg[t].key, arg[t].ty,
                                              data[arg[t].key].val))
            /\ Return(t, Ret(arg[t], "true"))
    /\ UNCHANGED <<cfgSync, data, dataPoisoned, serializers, disk, handles,
                   guard, nops, proc>>

\* ----------------------------------------------------------------- Item
\* impl Clone for Item: another Item over the same cell.
Clone(t, h) ==
    /\ CanCall(t)
    /\ handles[t][h] > 0
    /\ nops' = nops + 1
    /\ handles' = [handles EXCEPT ![t][h] = @ + 1]
    /\ ret' = Result(Call("clone", h.key, h.ty, 0, FALSE), "handle", h.ty, 0)
    /\ UNCHANGED <<cfgSync, data, dataLock, dataPoisoned, serializers, disk,
                   events, pc, arg, guard, proc>>

\* The outcomes of an access through an Item or guard of kind h.
DerefOutcomes(h) == IF h.bad THEN UBOutcomes ELSE {"ok"}

\* Item::lock: self.0.lock().  The caller keeps the guard (one per thread).
Lock(t, h) ==
    /\ Running
    /\ pc[t] = "idle"
    /\ guard[t] = NoGuard
    /\ handles[t][h] > 0
    /\ h.bad \/ LockFree(data[h.key].lock)
    /\ \E o \in DerefOutcomes(h) :
       /\ proc' = ProcAfter(o)
       /\ IF o = "ok" /\ data[h.key].poisoned
          THEN /\ ret' = Ret(Call("lock", h.key, h.ty, 0, FALSE), "poisoned")
               /\ UNCHANGED <<data, guard>>
          ELSE /\ ret' = NoRet
               /\ guard' = [guard EXCEPT ![t] = h]
               /\ data' = IF o = "ok" THEN [data EXCEPT ![h.key].lock = t]
                          ELSE data
    /\ UNCHANGED <<cfgSync, dataLock, dataPoisoned, serializers, disk, events,
                   pc, arg, handles, nops>>

\* A store through the guard: *guard = v.
Write(t, v) ==
    /\ Running
    /\ pc[t] = "idle"
    /\ guard[t] # NoGuard
    /\ data[guard[t].key].present
    /\ v \in Range(data[guard[t].key].ty)
    /\ guard[t].bad \/ v # data[guard[t].key].val
    /\ \E o \in DerefOutcomes(guard[t]) :
       /\ proc' = ProcAfter(o)
       /\ data' = [data EXCEPT ![guard[t].key].val = v]
    /\ ret' = NoRet
    /\ UNCHANGED <<cfgSync, dataLock, dataPoisoned, serializers, disk, events,
                   pc, arg, handles, guard, nops>>

\* The guard goes out of scope: the cell is unlocked.
Unlock(t) ==
    /\ Running
    /\ pc[t] = "idle"
    /\ guard[t] # NoGuard
    /\ \E o \in DerefOutcomes(guard[t]) :
       /\ proc' = ProcAfter(o)
       /\ data' = IF o = "ok" THEN [data EXCEPT ![guard[t].key].lock = "free"]
                  ELSE data
    /\ guard' = [guard EXCEPT ![t] = NoGuard]
    /\ ret' = NoRet
    /\ UNCHANGED <<cfgSync, dataLock, dataPoisoned, serializers, disk, events,
                   pc, arg, handles, nops>>

\* The Items of t after one of kind h is gone, and where t is then.
Dropped(t, h) == [handles EXCEPT ![t][h] = @ - 1]

AfterDrop(t, h) ==
    IF pc[t] = "unwind" /\ \A g \in HandleKinds : Dropped(t, h)[t][g] = 0
    THEN "dead" ELSE pc[t]

\* What drop reads under the lock: the value of the cell, or through a
\* dangling or miscast reference whatever is there.
DropRead(h) == IF h.bad THEN Range(h.ty) ELSE {data[h.key].val}

\* impl Drop for Item: lock the cell, emit its value, persist it.  A guard
\* borrows the Item it came from, so that one cannot be dropped under it.
Drop(t, h) ==
    /\ Running
    /\ pc[t] \in {"idle", "unwind"}
    /\ handles[t][h] > (IF guard[t] = h THEN 1 ELSE 0)
    /\ h.bad \/ LockFree(data[h.key].lock)
    /\ IF ~h.bad /\ data[h.key].poisoned
       THEN /\ IF pc[t] = "unwind"
               THEN /\ proc' = "aborted"
                    /\ ret' = NoRet
                    /\ handles' = Dropped(t, h)
                    /\ UNCHANGED <<data, dataLock, dataPoisoned, guard, pc,
                                   arg>>
               ELSE Unwind(t, FALSE, Dropped(t, h))
            /\ UNCHANGED <<events, disk>>
       ELSE \E o \in DerefOutcomes(h) : \E v \in DropRead(h) :
            /\ proc' = ProcAfter(o)
            /\ handles' = Dropped(t, h)
            /\ events' = IF o = "abort" THEN events
                         ELSE Append(events, Event(h.key, h.ty, v))
            /\ disk' = IF o = "abort" THEN disk ELSE Persisted(h.key, h.ty, v)
            /\ pc' = [pc EXCEPT ![t] = AfterDrop(t, h)]
            /\ ret' = NoRet
            /\ UNCHANGED <<data, dataLock, dataPoisoned, guard, arg>>
    /\ UNCHANGED <<cfgSync, serializers, nops>>

\* ----------------------------------------------------------------- Next
Next ==
    \/ \E t \in Threads, k \in Keys, ty \in Types :
          \E v \in Range(ty) : SetCall(t, k, ty, v)
    \/ \E t \in Threads : SetSerializers(t)
    \/ \E t \in Threads : SetData(t)
    \/ \E t \in Threads, k \in Keys, ty \in Types : LoadCall(t, k, ty)
    \/ \E t \in Threads : LoadRead(t)
    \/ \E t \in Threads, k \in Keys, ty \in Types, e \in BOOLEAN :
          \E v \in Range(ty) : UpdateCall(t, k, ty, v, e)
    \/ \E t \in Threads, k \in Keys, ty \in Types, e \in BOOLEAN :
          \E text \in Texts : UpdateTypedStringCall(t, k, ty, text, e)
    \/ \E t \in Threads : Decode(t)
    \/ \E t \in Threads : UpdateCheck(t)
    \/ \E t \in Threads : UpdateLock(t)
    \/ \E t \in Threads : UpdateCell(t)
    \/ \E t \in Threads, k \in Keys, ty \in Types : GetCall(t, k, ty)
    \/ \E t \in Threads : Get(t)
    \/ \E t \in Threads, k \in Keys, ty \in Types : SnapshotCall(t, k, ty)
    \/ \E t \in Threads, k \in Keys, ty \in Types : EmitCall(t, k, ty)
    \/ \E t \in Threads, k \in Keys, ty \in Types : SaveCall(t, k, ty)
    \/ \E t \in Threads : SaveCheck(t)
    \/ \E t \in Threads : Lookup(t)
    \/ \E t \in Threads : SnapshotCell(t)
    \/ \E t \in Threads : SavePersist(t)
    \/ \E t \in Threads : EmitCell(t)
    \/ \E t \in Threads, h \in HandleKinds : Clone(t, h)
    \/ \E t \in Threads, h \in HandleKinds : Lock(t, h)
    \/ \E t \in Threads : \E v \in 0..MaxVal : Write(t, v)
    \/ \E t \in Threads : Unlock(t)
    \/ \E t \in Threads, h \in HandleKinds : Drop(t, h)

Spec == Init /\ [][Next]_vars

\* ------------------------------------------- a store that has been set up
\* The store after the application's setup has run set::<i32>(key, 0) for
\* every key: what set leaves behind (an entry, its serializer pair, the
\* persisted value when sync_to_disk is on).  Calls are counted from here.
InitSet ==
    /\ cfgSync \in BOOLEAN
    /\ data = [k \in Keys |-> NewCell("i32", 0)]
    /\ dataLock = "free"
    /\ dataPoisoned = FALSE
    /\ serializers = [k \in Keys |-> "i32"]
    /\ disk = [k \in Keys |-> IF cfgSync THEN ToJson("i32", 0) ELSE NoJson]
    /\ events = <<>>
    /\ pc = [t \in Threads |-> "idle"]
    /\ arg = [t \in Threads |-> NoArg]
    /\ ret = NoRet
    /\ handles = [t \in Threads |-> NoHandles]
    /\ guard = [t \in Threads |-> NoGuard]
    /\ nops = 0
    /\ proc = "running"

\* ------------------------------------------------ a panic under a guard
\* The code that holds the MutexGuard of Item::lock panics.  The guard is
\* dropped by the unwinding, which poisons the cell's Mutex.  caught: the
\* Item lives outside the panicking frame (the panic is caught below it, or
\* the guard was taken through a shared &Item), so only the guard goes;
\* otherwise the Item is dropped next (Unwind).
PanicInGuard(t, caught) ==
    /\ Running
    /\ pc[t] = "idle"
    /\ guard[t] # NoGuard
    /\ IF caught /\ ~guard[t].bad
       THEN /\ data' = [data EXCEPT ![guard[t].key].lock = "free",
                                    ![guard[t].key].poisoned = TRUE]
            /\ guard' = [guard EXCEPT ![t] = NoGuard]
            /\ ret' = NoRet
            /\ UNCHANGED <<dataLock, dataPoisoned, pc, arg, handles, proc>>
       ELSE Unwind(t, FALSE, handles)
    /\ UNCHANGED <<cfgSync, serializers, disk, events, nops>>

\* ----------------------------------------------------------- PartialEq
\* impl PartialEq for Item: a == b, both Items owned by the caller.
EqCall(t, h, o) ==
    /\ handles[t][h] > 0
    /\ handles[t][o] > 0
    /\ Enter(t, [Call("eq", h.key, h.ty, 0, FALSE) EXCEPT !.other = o],
             "eq_self")

\* A panic of eq: the guards it holds are dropped by the unwinding, which
\* poisons their cells, then the caller's frame unwinds.
EqPanic(t, held) ==
    /\ data' = [k \in Keys |->
                  IF k \in held
                  THEN [data[k] EXCEPT !.lock = "free", !.poisoned = TRUE]
                  ELSE data[k]]
    /\ pc' = [pc EXCEPT ![t] = "unwind"]
    /\ arg' = [arg EXCEPT ![t] = NoArg]
    /\ ret' = NoRet
    /\ UNCHANGED <<dataLock, dataPoisoned, handles, guard, proc>>

\* eq: self.0.lock().unwrap()
EqLockSelf(t) ==
    /\ Running
    /\ pc[t] = "eq_self"
    /\ LockFree(data[arg[t].key].lock)
    /\ IF data[arg[t].key].poisoned
       THEN EqPanic(t, {})
       ELSE /\ data' = [data EXCEPT ![arg[t].key].lock = t]
            /\ Goto(t, "eq_other")
            /\ UNCHANGED <<dataLock, dataPoisoned, handles, guard, proc>>
    /\ UNCHANGED <<cfgSync, serializers, disk, events, nops>>

\* self_guard.eq(&other_guard) && self.1 == other.1
EqResult(a) ==
    IF data[a.key].val = data[a.other.key].val /\ a.key = a.other.key
    THEN "true" ELSE "false"

\* eq: other.0.lock().unwrap() with the first guard held, compare, drop both
\* guards.
EqLockOther(t) ==
    /\ Running
    /\ pc[t] = "eq_other"
    /\ LockFree(data[arg[t].other.key].lock)
    /\ IF data[arg[t].other.key].poisoned
       THEN EqPanic(t, {arg[t].key})
       ELSE /\ data' = [data EXCEPT ![arg[t].key].lock = "free"]
            /\ Return(t, Ret(arg[t], EqResult(arg[t])))
            /\ UNCHANGED <<dataLock, dataPoisoned, handles, guard, proc>>
    /\ UNCHANGED <<cfgSync, serializers, disk, events, nops>>

\* ------------------------------------------------ three sets of callers
\* The steps inside the store's functions, whoever called them.
Inside(t) ==
    \/ SetSerializers(t)
    \/ SetData(t)
    \/ UpdateCheck(t)
    \/ UpdateLock(t)
    \/ UpdateCell(t)
    \/ Get(t)
    \/ Lookup(t)
    \/ SnapshotCell(t)
    \/ EmitCell(t)

\* What the owner of an Item does with it, short of writing.
Holding(t) ==
    \/ \E h \in HandleKinds : Lock(t, h)
    \/ Unlock(t)
    \/ \E h \in HandleKinds : Drop(t, h)

\* Callers of set, update, get, snapshot and emit with the type the keys were
\* set up with, who lock, write, unlock and drop their Items and may panic
\* under a guard.
NextSet ==
    \E t \in Threads :
        \/ \E k \in Keys, v \in Range("i32") : SetCall(t, k, "i32", v)
        \/ \E k \in Keys, v \in Range("i32"), e \in BOOLEAN :
              UpdateCall(t, k, "i32", v, e)
        \/ \E k \in Keys : GetCall(t, k, "i32")
        \/ \E k \in Keys : SnapshotCall(t, k, "i32")
        \/ \E k \in Keys : EmitCall(t, k, "i32")
        \/ Inside(t)
        \/ Holding(t)
        \/ \E v \in Range("i32") : Write(t, v)
        \/ \E caught \in BOOLEAN : PanicInGuard(t, caught)

SpecSet == InitSet /\ [][NextSet]_vars

\* Callers who get, clone, lock, write, unlock, drop and compare Items.
NextEq ==
    \E t \in Threads :
        \/ \E k \in Keys : GetCall(t, k, "i32")
        \/ Get(t)
        \/ \E h \in HandleKinds : Clone(t, h)
        \/ Holding(t)
        \/ \E v \in Range("i32") : Write(t, v)
        \/ \E h \in HandleKinds, o \in HandleKinds : EqCall(t, h, o)
        \/ EqLockSelf(t)
        \/ EqLockOther(t)

SpecEq == InitSet /\ [][NextEq]_vars

\* Callers of update with notify, of emit and of get, who lock, unlock and
\* drop their Items: no key is set again and no value is written through a
\* guard.
NextLin ==
    \E t \in Threads :
        \/ \E k \in Keys, v \in Range("i32") : UpdateCall(t, k, "i32", v, TRUE)
        \/ \E k \in Keys : GetCall(t, k, "i32")
        \/ \E k \in Keys : EmitCall(t, k, "i32")
        \/ UpdateCheck(t)
        \/ UpdateLock(t)
        \/ UpdateCell(t)
        \/ Get(t)
        \/ Lookup(t)
        \/ EmitCell(t)
        \/ Holding(t)

SpecLin == InitSet /\ [][NextLin]_vars

\* =========================================================== properties
\* The number of Items counted by f over the kinds in S.
RECURSIVE SumOver(_, _)
SumOver(f, S) ==
    IF S = {} THEN 0
    ELSE LET x == CHOOSE y \in S : TRUE IN f[x] + SumOver(f, S \ {x})

\* The step takes an Item of kind h away from thread t (a set that frees the
\* cell turns live Items into dangling ones: that releases none).
Released(t, h) ==
    /\ handles'[t][h] < handles[t][h]
    /\ h.bad \/ handles'[t][[h EXCEPT !.bad = TRUE]] =
                    handles[t][[h EXCEPT !.bad = TRUE]]

\* The Items over the current cell of key k, over all threads.
LiveHandles(k) ==
    LET live == {h \in HandleKinds : h.key = k /\ ~h.bad}
        total[T \in SUBSET Threads] ==
            IF T = {} THEN 0
            ELSE LET t == CHOOSE u \in T : TRUE
                 IN SumOver(handles[t], live) + total[T \ {t}]
    IN total[Threads]

\* Thread t holds a guard on the current cell of key k.
LiveGuardOn(t, k) == guard[t] # NoGuard /\ guard[t].key = k /\ ~guard[t].bad

\* Thread t takes a step of its call in progress.
Steps(t) == pc'[t] # pc[t]

\* The registries, the backend and the event sink are as they were.
StoreUnchanged ==
    UNCHANGED <<data, dataLock, dataPoisoned, serializers, disk, events>>

\* ------------------------------------------------------------------ C1
\* C1: every Item publishes exactly one "<key>_update" notification, when it
\* is released and not before, carrying the value of its cell at that moment,
\* whatever the exit path: a step that takes an Item away from a thread
\* appends exactly one event, named after the Item's key and carrying the
\* value stored under that key, and an event appears only when an Item is
\* released or an update or emit call returns.
C1_OneNotificationPerRelease ==
    [][/\ \A t \in Threads, h \in HandleKinds :
            Released(t, h) =>
                /\ Len(events') = Len(events) + 1
                /\ events'[Len(events')] =
                      [ty |-> h.ty, val |-> data[h.key].val,
                       name |-> h.key \o "_update"]
       /\ events' # events =>
            \/ \E t \in Threads, h \in HandleKinds : Released(t, h)
            \/ ret'.op \in {"update", "emit"}
      ]_vars

\* ------------------------------------------------------------------ C2
\* C2: under every interleaving of get, set, update and load, the
\* notification a released Item publishes carries the value the store holds
\* for its key at that moment, never a stale or undefined one.
C2_ReleaseCarriesStoreValue ==
    [][\A t \in Threads, h \in HandleKinds :
          (Released(t, h) /\ Len(events') > Len(events)) =>
              /\ data'[h.key].present
              /\ events'[Len(events')].ty = data'[h.key].ty
              /\ events'[Len(events')].val = data'[h.key].val
      ]_vars

C4_NoCrossKeyBlocking ==
    \A t \in Threads, u \in Threads :
        (/\ t # u
         /\ dataLock = u
         /\ pc[u] \in {"update_cell", "snapshot_cell", "emit_cell"}
         /\ pc[t] \in {"get_lock", "lookup", "update_check", "update_lock",
                       "set_data"})
        => arg[t].key = arg[u].key

\* ------------------------------------------------------------------ C5
\* C5: a typed access (get, snapshot, emit, update) to a key stored with
\* another type reports a type mismatch: it returns to the caller with that
\* error, hands out no handle and no value, and leaves the entry, the process
\* and everything published or persisted as they were.
C5_TypeMismatchReported ==
    [][\A t \in Threads :
          (/\ pc[t] \in {"get_lock", "lookup", "update_lock"}
           /\ ~dataPoisoned
           /\ data[arg[t].key].present
           /\ data[arg[t].key].ty # arg[t].ty
           /\ Steps(t))
          => /\ ret'.kind = "type_mismatch"
             /\ pc'[t] = "idle"
             /\ proc' = proc
             /\ UNCHANGED <<data, handles, events, disk>>
      ]_vars

\* ------------------------------------------------------------------ C6
\* C6: get, snapshot or emit on a key that was never set returns a
\* key-not-found error to the caller; the store is unchanged and usable.
C6_KeyNotFoundReported ==
    [][\A t \in Threads :
          (/\ pc[t] \in {"get_lock", "lookup"}
           /\ arg[t].op \in {"get", "snapshot", "emit"}
           /\ ~dataPoisoned
           /\ ~data[arg[t].key].present
           /\ Steps(t))
          => /\ ret'.kind = "key_not_found"
             /\ pc'[t] = "idle"
             /\ proc' = proc
             /\ StoreUnchanged
      ]_vars

\* ------------------------------------------------------------------ C7
\* serde_json::to_string of a value of the type.
JsonText(ty, v) ==
    IF ty = "bool" THEN (IF v = 1 THEN "true" ELSE "false") ELSE ToString(v)

\* The text is the JSON of no value of the type.
Undecodable(ty, text) == \A v \in Range(ty) : text # JsonText(ty, v)

\* C7: update_typed_string with a text that does not decode as the requested
\* type is a no-op, whatever notify and whether or not the key exists: the
\* call returns from its decode step, and neither entering it nor that step
\* changes the registries, the persisted values, the published events, the
\* handles or the process.
C7_UndecodableIsNoOp ==
    [][\A t \in Threads :
          (/\ Steps(t)
           /\ \/ /\ pc'[t] = "decode"
                 /\ Undecodable(arg'[t].ty, arg'[t].text)
              \/ /\ pc[t] = "decode"
                 /\ Undecodable(arg[t].ty, arg[t].text))
          => /\ pc[t] = "decode" => pc'[t] = "idle"
             /\ StoreUnchanged
             /\ UNCHANGED <<handles, guard, proc>>
      ]_vars

\* An update_typed_string of an existing key has just returned on a decode
\* error.
C7_Witness ==
    /\ ret.op = "update_typed_string"
    /\ ret.kind = "decode_error"
    /\ data[ret.key].present

\* ------------------------------------------------------------------ C8
\* C8: update(key, v, notify) on an existing key replaces the stored value by
\* v, persists v exactly when sync_to_disk is on, and publishes exactly one
\* "<key>_update" notification with v when notify is set and none otherwise:
\* the steps before the store change nothing but the map lock, and the step
\* that returns does exactly that.
C8_UpdateReplaces ==
    [][\A t \in Threads :
          (arg[t].op = "update" /\ Steps(t) /\ ~dataPoisoned) =>
              LET k == arg[t].key
                  v == arg[t].val
              IN /\ (pc[t] = "update_check" /\ data[k].present) =>
                        /\ pc'[t] = "update_lock"
                        /\ StoreUnchanged
                 /\ (pc[t] = "update_lock" /\ data[k].ty = arg[t].ty) =>
                        /\ pc'[t] = "update_cell"
                        /\ UNCHANGED <<data, serializers, disk, events>>
                 /\ (pc[t] = "update_cell" /\ pc'[t] = "idle") =>
                        /\ data' = [data EXCEPT ![k].val = v]
                        /\ disk' = IF cfgSync
                                   THEN [disk EXCEPT ![k] =
                                            ToJson(arg[t].ty, v)]
                                   ELSE disk
                        /\ events' = IF arg[t].emit
                                     THEN Append(events,
                                            [ty |-> arg[t].ty, val |-> v,
                                             name |-> k \o "_update"])
                                     ELSE events
                        /\ UNCHANGED <<serializers, handles>>
                        /\ dataLock' = "free"
      ]_vars

\* After one set and one update with notify of the same key, with persistence
\* on: the value is replaced, persisted and published once.
C8_Witness ==
    /\ ret.op = "update"
    /\ ret.kind = "replaced"
    /\ nops = 2
    /\ cfgSync
    /\ data[ret.key].val = 1
    /\ disk[ret.key] = ToJson(data[ret.key].ty, 1)
    /\ events = <<[ty |-> data[ret.key].ty, val |-> 1,
                   name |-> ret.key \o "_update"]>>

\* ------------------------------------------------------------------ C9
\* C9: update(key, v, notify) on a key that is not in the value registry has
\* the effect of set(key, v): the serializer pair is created if absent, the
\* entry is created with v, v is persisted when sync_to_disk is on, and no
\* notification is published whatever notify.  Every update that returns took
\* this path or the replace path, and leaves the value of its own call stored.
C9_UpdateOfNewKeyIsSet ==
    [][\A t \in Threads :
          (arg[t].op = "update" /\ Steps(t) /\ ~dataPoisoned) =>
              LET k == arg[t].key
                  v == arg[t].val
              IN /\ (pc[t] = "update_check" /\ ~data[k].present) =>
                        /\ pc'[t] = "set_ser"
                        /\ StoreUnchanged
                 /\ pc[t] = "set_ser" =>
                        /\ pc'[t] = "set_data"
                        /\ serializers' =
                              [serializers EXCEPT ![k] =
                                  IF @ = "none" THEN arg[t].ty ELSE @]
                        /\ UNCHANGED <<data, disk, events>>
                 /\ pc[t] = "set_data" =>
                        /\ pc'[t] = "idle"
                        /\ data' = [data EXCEPT ![k] =
                                [ty |-> arg[t].ty, present |-> TRUE,
                                 val |-> v, lock |-> "free",
                                 poisoned |-> FALSE]]
                        /\ disk' = IF cfgSync
                                   THEN [disk EXCEPT ![k] =
                                            ToJson(arg[t].ty, v)]
                                   ELSE disk
                        /\ UNCHANGED <<serializers, events>>
                 /\ pc'[t] = "idle" =>
                        /\ pc[t] \in {"set_data", "update_cell"}
                        /\ data'[k].present
                        /\ data'[k].val = v
      ]_vars

\* An update with notify of a new key has just returned through set, while
\* another update of the same key is on its way through set too.
C9_Witness ==
    /\ ret.op = "update"
    /\ ret.kind = "inserted"
    /\ events = <<>>
    /\ data[ret.key].present
    /\ \E u \in Threads :
          /\ arg[u].op = "update"
          /\ arg[u].key = ret.key
          /\ pc[u] \in {"set_ser", "set_data"}

\* ----------------------------------------------------------------- C10
\* C10: snapshot(key) of an existing key returns the value stored at that
\* moment and has no side effect: nothing is published, persisted or changed
\* in the registries, and the call holds no lock once it has returned.
C10_SnapshotIsPure ==
    [][\A t \in Threads :
          (arg[t].op = "snapshot" /\ Steps(t) /\ ~dataPoisoned) =>
              LET k == arg[t].key
              IN /\ (/\ pc[t] = "lookup"
                     /\ data[k].present
                     /\ data[k].ty = arg[t].ty) =>
                        /\ pc'[t] = "snapshot_cell"
                        /\ UNCHANGED <<data, serializers, disk, events,
                                       handles>>
                 /\ (pc[t] = "snapshot_cell" /\ pc'[t] = "idle") =>
                        /\ ret' = [ty |-> data[k].ty, val |-> data[k].val,
                                   kind |-> "value", key |-> k,
                                   op |-> "snapshot"]
                        /\ dataLock' = "free"
                        /\ data'[k].lock # t
                        /\ UNCHANGED <<data, dataPoisoned, serializers, disk,
                                       events, handles, guard>>
      ]_vars

\* A snapshot has just returned the stored value 1.
C10_Witness ==
    /\ ret.op = "snapshot"
    /\ ret.kind = "value"
    /\ ret.val = 1
    /\ data[ret.key].val = 1
    /\ dataLock = "free"

\* ----------------------------------------------------------------- C11
\* C11: emit(key) on an existing key whose entry lock is not poisoned
\* publishes exactly one "<key>_update" notification with the entry's current
\* value and returns true; when the entry's lock is poisoned it returns false
\* and publishes nothing.  Either way, and in the lookup before, the stored
\* and the persisted values stay as they were.
C11_EmitPublishesCurrent ==
    [][\A t \in Threads :
          (arg[t].op = "emit" /\ Steps(t) /\ ~dataPoisoned) =>
              LET k == arg[t].key
              IN /\ (pc[t] = "lookup" /\ data[k].ty = arg[t].ty) =>
                        /\ pc'[t] = "emit_cell"
                        /\ UNCHANGED <<data, disk, events>>
                 /\ pc[t] = "emit_cell" =>
                        /\ pc'[t] = "idle"
                        /\ UNCHANGED <<data, disk>>
                        /\ IF data[k].poisoned
                           THEN /\ ret'.kind = "false"
                                /\ events' = events
                           ELSE /\ ret'.kind = "true"
                                /\ events' = Append(events,
                                      [ty |-> data[k].ty, val |-> data[k].val,
                                       name |-> k \o "_update"])
      ]_vars

\* An emit on a key whose entry lock is poisoned has just returned false.
C11_Witness ==
    /\ ret.op = "emit"
    /\ ret.kind = "false"
    /\ data[ret.key].poisoned
    /\ events = <<>>

\* ----------------------------------------------------------------- C12
\* C12: load(key) takes T's default when persistence is disabled, when the
\* backend has no value for the key, or when the backend's value is not of
\* T's JSON kind, and the backend's value otherwise; it then sets the entry of
\* the key to the value it took and returns that value.
C12_LoadFallsBackToDefault ==
    [][\A t \in Threads :
          (arg[t].op = "load" /\ Steps(t) /\ ~dataPoisoned) =>
              LET k == arg[t].key
                  ty == arg[t].ty
                  decodable == /\ disk[k].present
                               /\ (ty = "bool") = (disk[k].kind = "bool")
              IN /\ pc[t] = "load_read" =>
                        /\ pc'[t] = "set_ser"
                        /\ arg'[t].val = IF cfgSync /\ decodable
                                         THEN disk[k].v
                                         ELSE DefaultOf(ty)
                        /\ StoreUnchanged
                 /\ pc[t] = "set_ser" =>
                        /\ pc'[t] = "set_data"
                        /\ arg'[t] = arg[t]
                        /\ UNCHANGED <<data, disk, events>>
                 /\ pc[t] = "set_data" =>
                        /\ pc'[t] = "idle"
                        /\ ret' = [ty |-> ty, val |-> arg[t].val,
                                   kind |-> "value", key |-> k,
                                   op |-> "load"]
                        /\ data'[k] = [ty |-> ty, present |-> TRUE,
                                       val |-> arg[t].val, lock |-> "free",
                                       poisoned |-> FALSE]
                        /\ events' = events
      ]_vars

\* With persistence on, a load::<i32> of a key first written as a bool has
\* just returned the default and left the entry set to it.
C12_Witness ==
    /\ ret.op = "load"
    /\ ret.kind = "value"
    /\ ret.ty = "i32"
    /\ ret.val = 0
    /\ cfgSync
    /\ nops = 2
    /\ serializers[ret.key] = "bool"
    /\ data[ret.key] = NewCell("i32", 0)

\* ----------------------------------------------------------------- C13
\* C13: save(key) with persistence on leaves, when it returns, the backend's
\* value of the key equal to the value stored in memory at that moment, and
\* changes neither the stored values, nor the notifications, nor the
\* backend's other keys; with persistence off it returns at once and changes
\* nothing.
C13_SaveMakesDiskCurrent ==
    [][\A t \in Threads :
          (arg[t].op = "save" /\ Steps(t) /\ pc'[t] = "idle") =>
              LET k == arg[t].key
              IN IF cfgSync
                 THEN /\ disk'[k] = ToJson(data'[k].ty, data'[k].val)
                      /\ \A j \in Keys \ {k} : disk'[j] = disk[j]
                      /\ UNCHANGED <<data, events>>
                 ELSE StoreUnchanged
      ]_vars

\* ----------------------------------------------------------------- C14
\* C14: a comparison of two live handles terminates, also when both alias one
\* cell: a comparison that holds the lock of its left operand is never left
\* waiting for a lock that the comparing thread holds itself, which no step of
\* any thread would ever release.
C14_ComparisonTerminates ==
    \A t \in Threads :
        pc[t] = "eq_other" => data[arg[t].other.key].lock # t

\* ----------------------------------------------------------------- C15
\* C15: the serializer pair of a key is created once, by the first set (called
\* directly, by update or by load) whose serializers block runs for the key,
\* with the type of that call; once created it is never replaced or removed,
\* whatever the type of later sets.
C15_SerializerCreatedOnce ==
    [][\A k \in Keys :
          /\ serializers[k] # "none" => serializers'[k] = serializers[k]
          /\ serializers'[k] # serializers[k] =>
                \E t \in Threads :
                    /\ pc[t] = "set_ser"
                    /\ pc'[t] = "set_data"
                    /\ arg[t].op \in {"set", "update", "load"}
                    /\ arg[t].key = k
                    /\ serializers'[k] = arg[t].ty
      ]_vars

\* A set of another type than the key's first set has just returned: the
\* entry has the new type, the serializer pair is still the first one.
C15_Witness ==
    /\ ret.op = "set"
    /\ ret.kind = "inserted"
    /\ data[ret.key].present
    /\ serializers[ret.key] # "none"
    /\ serializers[ret.key] # data[ret.key].ty

\* ----------------------------------------------------------------- C20
\* C20: in every reachable state, also in the middle of a set, an update or a
\* load, every key that is in the value registry is in the serializer
\* registry too.
C20_ValueHasSerializer ==
    \A k \in Keys : data[k].present => serializers[k] # "none"

\* Two sets of one key are under way: the first has inserted its value, the
\* second has passed the serializers block and not yet inserted.
C20_Witness ==
    \E t \in Threads :
        /\ pc[t] = "set_data"
        /\ data[arg[t].key].present
        /\ serializers[arg[t].key] # "none"
        /\ nops = 2

\* ----------------------------------------------------------------- C16
\* The last notification of key k in the sequence es (there is one).
LastFor(es, k) ==
    LET at == {i \in 1..Len(es) : es[i].name = k \o "_update"}
    IN es[CHOOSE i \in at : \A j \in at : j <= i]

\* C16: with updates that notify, emits and handle releases on keys that are
\* not set again, every step publishes at most one notification, which carries
\* the value its key has once the step is done; every step that changes a
\* stored value publishes it in that same step, so that the notifications of a
\* key follow the order of its writes; and after every step the last
\* notification of a key carries the key's stored value.
C16_NotificationsFollowWrites ==
    [][\A k \in Keys :
          LET n == k \o "_update"
          IN /\ events' # events =>
                   /\ Len(events') = Len(events) + 1
                   /\ SubSeq(events', 1, Len(events)) = events
                   /\ LET e == events'[Len(events')]
                      IN e.name = n =>
                            /\ e.ty = data'[k].ty
                            /\ e.val = data'[k].val
             /\ data'[k].val # data[k].val =>
                   /\ events' # events
                   /\ events'[Len(events')].name = n
             /\ (\E i \in 1..Len(events') : events'[i].name = n) =>
                   LastFor(events', k).val = data'[k].val
      ]_vars

\* Two updates of one key have published 1 and then 0, the entry holds 0, and
\* a third update of the key by the other thread is on its way.
C16_Witness ==
    /\ ret.op = "update"
    /\ ret.kind = "replaced"
    /\ Len(events) = 2
    /\ events[1] = [ty |-> "i32", val |-> 1, name |-> ret.key \o "_update"]
    /\ events[2] = [ty |-> "i32", val |-> 0, name |-> ret.key \o "_update"]
    /\ data[ret.key].val = 0
    /\ \E u \in Threads :
          /\ arg[u].op = "update"
          /\ arg[u].key = ret.key
          /\ pc[u] \in {"update_check", "update_lock", "update_cell"}

\* ----------------------------------------------------------------- C17
\* C17: a poisoned entry lock is isolated to its key: whatever happened to the
\* other keys, a step of set, update, get, snapshot or emit on a key whose own
\* entry lock is not poisoned does not fail.
C17_PoisonIsolated ==
    [][\A t \in Threads :
          (/\ Steps(t)
           /\ arg[t].op \in {"set", "update", "get", "snapshot", "emit"}
           /\ ~data[arg[t].key].poisoned) =>
              pc'[t] \notin {"unwind", "dead"}
      ]_vars

\* ----------------------------------------------------------------- C18
\* The steps that wait for the lock of the data map.
WaitsForMap(t) ==
    pc[t] \in {"set_data", "update_check", "update_lock", "get_lock", "lookup"}

\* The steps that wait for an entry lock with the lock of the data map held.
WaitsForEntry(t) ==
    /\ pc[t] \in {"update_cell", "snapshot_cell", "emit_cell"}
    /\ dataLock = t

\* C18: no wait cycle between the lock of the data map and the entry locks:
\* there are no two threads of which one, holding the guard of an entry, waits
\* in set, update, get, snapshot or emit of another key for the map lock,
\* while the other holds the map lock and waits for that entry.
C18_NoWaitCycle ==
    \A t, u \in Threads :
        ~ /\ t # u
          /\ WaitsForMap(t)
          /\ WaitsForEntry(u)
          /\ LiveGuardOn(t, arg[u].key)
          /\ data[arg[u].key].lock = t
          /\ arg[t].key # arg[u].key

\* ----------------------------------------------------------------- C19
\* The process is alive, no operation is in progress and no handle or guard is
\* outstanding.
Quiescent ==
    /\ proc # "aborted"
    /\ \A t \in Threads :
          /\ pc[t] = "idle"
          /\ guard[t] = NoGuard
          /\ ~HasHandles(t)

\* C19: with sync_to_disk on, memory and disk agree at quiescence: when no
\* operation is in progress and no handle is outstanding, the backend's value
\* of every key in the value registry is the key's stored value.
C19_DiskAgreesAtQuiescence ==
    (cfgSync /\ Quiescent) =>
        \A k \in Keys :
            data[k].present => disk[k] = ToJson(data[k].ty, data[k].val)

====
